---- MODULE Spec2Model ----
(***************************************************************************)
(* PageActivationScheduler (page-activation-scheduler.ts) and              *)
(* SmartFrameCanvasExtractor (canvas-extractor.ts) as state machines.      *)
(*                                                                         *)
(* JavaScript runs one callback at a time: an action of this module is the *)
(* code a handler runs between two suspension points (await), so the       *)
(* interleavings are exactly those of the event loop.  Time is a discrete  *)
(* clock `now` whose unit is the 100 ms poll interval of acquirePage; a    *)
(* setTimeout timer fires when its time has come and before the clock      *)
(* moves on, the external page operations (bringToFront, close) take any   *)
(* amount of time.                                                         *)
(***************************************************************************)
EXTENDS Integers, Sequences, FiniteSets, TLC

\* ---- bounds of the model ----
MaxPages == 2       \* pool sizes 1..MaxPages
NumCalls == 3       \* acquirePage calls made on one pool
NumRotCalls == 2    \* acquirePage calls made while the rotation is observed
MaxTime == 2        \* the clock stops here; every timeout ends by then

PageIds == 1..MaxPages
Calls == 1..NumCalls
RotCalls == 1..NumRotCalls
TimeoutVals == 0..MaxTime

VARIABLES
    pages,              \* this.pages: sequence of PageState records
    rotationTimerId,    \* this.rotationTimerId # null
    currentActiveIndex, \* this.currentActiveIndex (0-based)
    activeTasks,        \* this.activeTasks: the task promises, named by their call
    shuttingDown,       \* this.shuttingDown
    cleanupStarted,     \* this.cleanupStarted: "null" or "resolved"
    acq,                \* the acquirePage invocations and their release closures
    cln,                \* the cleanup invocation
    invoked,            \* page API calls issued by the last step
    closeCalled,        \* page handles on which close() was ever called
    now,                \* Date.now(), in poll intervals
    \* -- one extractCanvasImage run --
    xpc,                \* where the run is suspended
    xnow,               \* Date.now(), in ms
    xwake,              \* when the pending wait(ms) timer fires
    xin,                \* the call's arguments and the configuration it reads
    signal,             \* attributes of the #extension-response-data element
    poll,               \* startTime, attempt, canvasReady of the polling loop
    imageDataUrl,       \* the data-url value read after a successful poll
    files,              \* which of the run's two files exist on disk
    thrown,             \* the error caught by the outer catch, if any
    result,             \* what the call returned
    xhist,              \* what the run did so far (for the properties)
    \* -- SmartFrameCanvasExtractor.embedExifMetadata --
    tags,               \* metadata.tags, a sequence of characters
    args                \* the argument list handed to spawn('exiftool', args)

poolVars == <<pages, rotationTimerId, currentActiveIndex, activeTasks,
              shuttingDown, cleanupStarted, acq, cln, invoked, closeCalled, now>>

exifVars == <<tags, args>>

extVars == <<xpc, xnow, xwake, xin, signal, poll, imageDataUrl, files, thrown,
             result, xhist, exifVars>>

vars == <<poolVars, extVars>>

\* ---- the extractor before any call ----

NoInput == [initialRenderWaitMs |-> 0, postResizeWaitMs |-> 0, maxRenderWaitMs |-> 0,
            imageId |-> << >>, viewportMode |-> "thumbnail", metadata |-> FALSE]

\* What the call returned: nothing yet, null, or a path (a sequence of characters).
NoResult == [kind |-> "none", path |-> << >>]
Null == [kind |-> "null", path |-> << >>]
Returned(p) == [kind |-> "path", path |-> p]

NoSignal == [data |-> "absent", error |-> "absent"]

NoError == [name |-> "none", text |-> "none", elapsedMs |-> 0, maxWaitMs |-> 0,
            lastKnownError |-> "null"]

NoHist == [frontAt |-> -1, firstCheckAt |-> -1, early |-> FALSE, checks |-> 0,
           lastDelay |-> 0, mouseMoves |-> 0, exif |-> "none",
           signalled |-> FALSE, inTime |-> FALSE, errorFromExtension |-> "none",
           fileSizeBytes |-> -1, width |-> -1, height |-> -1]

ExtIdle ==
    /\ xpc = "idle"
    /\ xnow = 0
    /\ xwake = 0
    /\ xin = NoInput
    /\ signal = NoSignal
    /\ poll = [startTime |-> 0, attempt |-> 0, canvasReady |-> FALSE]
    /\ imageDataUrl = "null"
    /\ files = {}
    /\ thrown = NoError
    /\ result = NoResult
    /\ xhist = NoHist

\* ---- PageState, constructor ----

\* One PageState of the constructor: not busy, never activated.
PageState(p) == [page |-> p, busy |-> FALSE, lastActivated |-> 0]

\* An acquirePage invocation that has not been made yet.
NoCall == [pc |-> "idle", slot |-> -1, deadline |-> 0, wakeAt |-> 0,
           watcher |-> "none", result |-> "none", log |-> "none",
           released |-> FALSE, during |-> "idle", waited |-> FALSE]

NoCleanup == [pc |-> "idle", deadline |-> 0, tasks |-> {}, closePages |-> FALSE]

\* A page API call issued by a step.
Op(name, p) == [op |-> name, page |-> p]

\* new PageActivationScheduler(pages): a pool of n >= 1 pages.
PoolInit ==
    /\ \E n \in 1..MaxPages : pages = [i \in 1..n |-> PageState(i)]
    /\ rotationTimerId = FALSE
    /\ currentActiveIndex = 0
    /\ activeTasks = {}
    /\ shuttingDown = FALSE
    /\ cleanupStarted = "null"
    /\ acq = [c \in Calls |-> NoCall]
    /\ cln = NoCleanup
    /\ invoked = {}
    /\ closeCalled = {}
    /\ now = 0
    /\ ExtIdle

\* ---- helpers ----

\* this.pages.findIndex(p => !p.busy): the first free slot (0-based) or -1.
findIndex ==
    IF \E i \in 1..Len(pages) : ~pages[i].busy
    THEN (CHOOSE i \in 1..Len(pages) :
              ~pages[i].busy /\ \A j \in 1..(i-1) : pages[j].busy) - 1
    ELSE -1

\* getBusyCount()
getBusyCount == Cardinality({i \in 1..Len(pages) : pages[i].busy})

\* getStats()
getStats == [total |-> Len(pages), busy |-> getBusyCount,
             available |-> Len(pages) - getBusyCount,
             activeTasks |-> Cardinality(activeTasks)]

\* Promise.race([waitPromise, cleanupWatcher]) of a parked acquirePage has settled:
\* its 100 ms timer is due, or the cleanupStarted promise it captured (none when
\* cleanupStarted was null at the call) is resolved.
RaceSettled(c) ==
    \/ acq[c].wakeAt <= now
    \/ acq[c].watcher = "cleanup" /\ cleanupStarted = "resolved"

\* The drain race without its timeout promise: cleanup waits for the tasks alone.
DrainSettledTasksOnly ==
    cln.tasks \cap activeTasks = {}

\* Promise.race([allTasksPromise, timeoutPromise]) of cleanup has settled: every
\* task promise of the snapshot is resolved, or timeoutMs has elapsed.
DrainSettled ==
    \/ cln.tasks \cap activeTasks = {}
    \/ cln.deadline <= now

\* Some suspended code can run now: the event loop runs it before the clock moves.
TimerDue ==
    \/ \E c \in Calls : acq[c].pc = "wait" /\ RaceSettled(c)
    \/ cln.pc = "drain" /\ DrainSettled

\* ---- the clock ----
Tick ==
    /\ now < MaxTime
    /\ ~TimerDue
    /\ now' = now + 1
    /\ invoked' = {}
    /\ UNCHANGED <<pages, rotationTimerId, currentActiveIndex, activeTasks,
                   shuttingDown, cleanupStarted, acq, cln, closeCalled, extVars>>

\* ---- startRotation / stopRotation / rotateActivePage ----

\* startRotation(): a second call while the timer runs is a no-op.
startRotation ==
    /\ rotationTimerId' = TRUE
    /\ invoked' = {}
    /\ UNCHANGED <<pages, currentActiveIndex, activeTasks, shuttingDown,
                   cleanupStarted, acq, cln, closeCalled, now, extVars>>

\* stopRotation(): clearInterval, safe when no timer runs.
stopRotation ==
    /\ rotationTimerId' = FALSE
    /\ invoked' = {}
    /\ UNCHANGED <<pages, currentActiveIndex, activeTasks, shuttingDown,
                   cleanupStarted, acq, cln, closeCalled, now, extVars>>

\* rotateActivePage that brings the page the cursor moved to to the front, as the
\* class comment ("rotating which tab is active (brought to front)") describes.
rotateBringsToFront ==
    /\ rotationTimerId
    /\ IF shuttingDown
       THEN /\ invoked' = {}
            /\ UNCHANGED <<pages, currentActiveIndex>>
       ELSE LET next == (currentActiveIndex + 1) % Len(pages) IN
            /\ currentActiveIndex' = next
            /\ pages' = [pages EXCEPT ![next + 1].lastActivated = now]
            /\ invoked' = {Op("bringToFront", pages[next + 1].page),
                           Op("mouse.move", pages[next + 1].page)}
    /\ UNCHANGED <<rotationTimerId, activeTasks, shuttingDown, cleanupStarted,
                   acq, cln, closeCalled, now, extVars>>

\* rotateActivePage that also frees the slot it moves to.
rotateFreesSlot ==
    /\ rotationTimerId
    /\ IF shuttingDown
       THEN /\ invoked' = {}
            /\ UNCHANGED <<pages, currentActiveIndex>>
       ELSE LET next == (currentActiveIndex + 1) % Len(pages) IN
            /\ currentActiveIndex' = next
            /\ pages' = [pages EXCEPT ![next + 1].lastActivated = now,
                                      ![next + 1].busy = FALSE]
            /\ invoked' = {Op("mouse.move", pages[next + 1].page)}
    /\ UNCHANGED <<rotationTimerId, activeTasks, shuttingDown, cleanupStarted,
                   acq, cln, closeCalled, now, extVars>>

\* rotateActivePage without the shuttingDown test.
rotateIgnoresShutdown ==
    /\ rotationTimerId
    /\ IF Len(pages) = 0
       THEN /\ invoked' = {}
            /\ UNCHANGED <<pages, currentActiveIndex>>
       ELSE LET next == (currentActiveIndex + 1) % Len(pages) IN
            /\ currentActiveIndex' = next
            /\ pages' = [pages EXCEPT ![next + 1].lastActivated = now]
            /\ invoked' = {Op("mouse.move", pages[next + 1].page)}
    /\ UNCHANGED <<rotationTimerId, activeTasks, shuttingDown, cleanupStarted,
                   acq, cln, closeCalled, now, extVars>>

\* rotateActivePage(), one tick of the interval timer: returns at once when
\* shutting down, else advances the cursor, stamps the slot and moves the mouse
\* on its page (the result of mouse.move is ignored).
rotateActivePage ==
    /\ rotationTimerId
    /\ IF shuttingDown
       THEN /\ invoked' = {}
            /\ UNCHANGED <<pages, currentActiveIndex>>
       ELSE LET next == (currentActiveIndex + 1) % Len(pages) IN
            /\ currentActiveIndex' = next
            /\ pages' = [pages EXCEPT ![next + 1].lastActivated = now]
            /\ invoked' = {Op("mouse.move", pages[next + 1].page)}
    /\ UNCHANGED <<rotationTimerId, activeTasks, shuttingDown, cleanupStarted,
                   acq, cln, closeCalled, now, extVars>>

\* ---- acquirePage ----

\* AcquireLoop with the free-slot test moved before the shuttingDown test.
AcquireLoopSlotFirst(c, deadline, watcher) ==
    LET call == [NoCall EXCEPT !.during = IF acq[c].pc = "idle" THEN cln.pc
                                          ELSE acq[c].during,
                               !.waited = acq[c].pc = "wait"] IN
    IF ~(now < deadline)
    THEN /\ acq' = [acq EXCEPT ![c] = [call EXCEPT !.pc = "done", !.result = "null",
                                                    !.log = "timeout"]]
         /\ invoked' = {}
         /\ UNCHANGED pages
    ELSE IF findIndex # -1
    THEN /\ pages' = [pages EXCEPT ![findIndex + 1].busy = TRUE]
         /\ invoked' = {Op("bringToFront", pages[findIndex + 1].page)}
         /\ acq' = [acq EXCEPT ![c] = [call EXCEPT !.pc = "front", !.slot = findIndex]]
    ELSE IF shuttingDown
    THEN /\ acq' = [acq EXCEPT ![c] = [call EXCEPT !.pc = "done", !.result = "null",
                                                    !.log = "shutdown"]]
         /\ invoked' = {}
         /\ UNCHANGED pages
    ELSE /\ acq' = [acq EXCEPT ![c] = [call EXCEPT !.pc = "wait", !.deadline = deadline,
                                                    !.wakeAt = now + 1,
                                                    !.watcher = watcher]]
         /\ invoked' = {}
         /\ UNCHANGED pages

\* AcquireLoop without the timeout test: the call waits until a slot is free or
\* the pool shuts down.
AcquireLoopNoTimeout(c, deadline, watcher) ==
    LET call == [NoCall EXCEPT !.during = IF acq[c].pc = "idle" THEN cln.pc
                                          ELSE acq[c].during,
                               !.waited = acq[c].pc = "wait"] IN
    IF shuttingDown
    THEN /\ acq' = [acq EXCEPT ![c] = [call EXCEPT !.pc = "done", !.result = "null",
                                                    !.log = "shutdown"]]
         /\ invoked' = {}
         /\ UNCHANGED pages
    ELSE IF findIndex # -1
    THEN /\ pages' = [pages EXCEPT ![findIndex + 1].busy = TRUE]
         /\ invoked' = {Op("bringToFront", pages[findIndex + 1].page)}
         /\ acq' = [acq EXCEPT ![c] = [call EXCEPT !.pc = "front", !.slot = findIndex]]
    ELSE /\ acq' = [acq EXCEPT ![c] = [call EXCEPT !.pc = "wait", !.deadline = deadline,
                                                    !.wakeAt = now + 1,
                                                    !.watcher = watcher]]
         /\ invoked' = {}
         /\ UNCHANGED pages

\* One pass of the while loop of acquirePage, run at the call and at each wake-up:
\* the timeout test, the shuttingDown test, then the first free slot is marked busy
\* and bringToFront is called on its page (the call suspends), or the call parks for
\* one poll interval.
AcquireLoop(c, deadline, watcher) ==
    LET call == [NoCall EXCEPT !.during = IF acq[c].pc = "idle" THEN cln.pc
                                          ELSE acq[c].during,
                               !.waited = acq[c].pc = "wait"] IN
    IF ~(now < deadline)
    THEN /\ acq' = [acq EXCEPT ![c] = [call EXCEPT !.pc = "done", !.result = "null",
                                                    !.log = "timeout"]]
         /\ invoked' = {}
         /\ UNCHANGED pages
    ELSE IF shuttingDown
    THEN /\ acq' = [acq EXCEPT ![c] = [call EXCEPT !.pc = "done", !.result = "null",
                                                    !.log = "shutdown"]]
         /\ invoked' = {}
         /\ UNCHANGED pages
    ELSE IF findIndex # -1
    THEN /\ pages' = [pages EXCEPT ![findIndex + 1].busy = TRUE]
         /\ invoked' = {Op("bringToFront", pages[findIndex + 1].page)}
         /\ acq' = [acq EXCEPT ![c] = [call EXCEPT !.pc = "front", !.slot = findIndex]]
    ELSE /\ acq' = [acq EXCEPT ![c] = [call EXCEPT !.pc = "wait", !.deadline = deadline,
                                                    !.wakeAt = now + 1,
                                                    !.watcher = watcher]]
         /\ invoked' = {}
         /\ UNCHANGED pages

\* acquirePage(timeoutMs) is called: startTime and cleanupWatcher are taken, then
\* the first pass of the loop runs.  Calls are numbered in the order they are made.
acquirePage(c) ==
    /\ acq[c].pc = "idle"
    /\ \A d \in Calls : d < c => acq[d].pc # "idle"
    /\ \E timeoutMs \in TimeoutVals :
          /\ now + timeoutMs <= MaxTime
          /\ AcquireLoop(c, now + timeoutMs,
                         IF cleanupStarted # "null" THEN "cleanup" ELSE "never")
    /\ UNCHANGED <<rotationTimerId, currentActiveIndex, activeTasks, shuttingDown,
                   cleanupStarted, cln, closeCalled, now, extVars>>

\* Promise.race([waitPromise, cleanupWatcher]) settles: the 100 ms timer fired, or
\* the cleanupStarted promise the call captured was resolved.
AcquireWake(c) ==
    /\ acq[c].pc = "wait"
    /\ RaceSettled(c)
    /\ AcquireLoop(c, acq[c].deadline, acq[c].watcher)
    /\ UNCHANGED <<rotationTimerId, currentActiveIndex, activeTasks, shuttingDown,
                   cleanupStarted, cln, closeCalled, now, extVars>>

\* bringToFront resolved: the slot is stamped, the task promise registered and the
\* capability returned.  pageState is the object taken before the await: the stamp
\* shows in this.pages only while the slot list still holds it.
AcquireActivated(c) ==
    /\ acq[c].pc = "front"
    /\ pages' = IF acq[c].slot + 1 <= Len(pages)
                THEN [pages EXCEPT ![acq[c].slot + 1].lastActivated = now]
                ELSE pages
    /\ activeTasks' = activeTasks \cup {c}
    /\ acq' = [acq EXCEPT ![c].pc = "holding", ![c].result = "cap"]
    /\ invoked' = {}
    /\ UNCHANGED <<rotationTimerId, currentActiveIndex, shuttingDown,
                   cleanupStarted, cln, closeCalled, now, extVars>>

\* bringToFront rejected: acquirePage has no try around it, the call throws to its
\* caller and nothing is undone.
AcquireActivationFailed(c) ==
    /\ acq[c].pc = "front"
    /\ acq' = [acq EXCEPT ![c].pc = "done", ![c].result = "threw"]
    /\ invoked' = {}
    /\ UNCHANGED <<pages, rotationTimerId, currentActiveIndex, activeTasks,
                   shuttingDown, cleanupStarted, cln, closeCalled, now, extVars>>

\* The release closure of call c is called (any number of times): clears the busy
\* flag of the slot index it captured if the slot list still has that index,
\* deletes its task promise and resolves it.
release(c) ==
    /\ acq[c].pc = "holding"
    /\ pages' = IF acq[c].slot + 1 <= Len(pages)
                THEN [pages EXCEPT ![acq[c].slot + 1].busy = FALSE]
                ELSE pages
    /\ activeTasks' = activeTasks \ {c}
    /\ acq' = [acq EXCEPT ![c].released = TRUE]
    /\ invoked' = {}
    /\ UNCHANGED <<rotationTimerId, currentActiveIndex, shuttingDown,
                   cleanupStarted, cln, closeCalled, now, extVars>>

\* ---- cleanup ----

\* The end of cleanup: close() is called on every page and awaited (a rejected
\* close is swallowed), or with closePages false the slot list is emptied at once.
CleanupClose(closePages) ==
    IF closePages
    THEN /\ invoked' = {Op("close", pages[i].page) : i \in 1..Len(pages)}
         /\ closeCalled' = closeCalled \cup {pages[i].page : i \in 1..Len(pages)}
         /\ cln' = [cln EXCEPT !.pc = "closing", !.closePages = closePages,
                               !.deadline = 0]
         /\ UNCHANGED pages
    ELSE /\ pages' = << >>
         /\ invoked' = {}
         /\ cln' = [cln EXCEPT !.pc = "done", !.closePages = closePages,
                               !.deadline = 0]
         /\ UNCHANGED closeCalled

\* cleanup(timeoutMs, closePages) is called (once: it is the pool's terminal
\* operation): sets shuttingDown, resolves cleanupStarted, stops the rotation, then
\* waits for the task promises registered at this moment, if there are any.
cleanup ==
    /\ cln.pc = "idle"
    /\ shuttingDown' = TRUE
    /\ cleanupStarted' = "resolved"
    /\ rotationTimerId' = FALSE
    /\ \E timeoutMs \in TimeoutVals, closePages \in BOOLEAN :
          /\ now + timeoutMs <= MaxTime
          /\ IF activeTasks # {}
             THEN /\ cln' = [pc |-> "drain", deadline |-> now + timeoutMs,
                             tasks |-> activeTasks, closePages |-> closePages]
                  /\ invoked' = {}
                  /\ UNCHANGED <<pages, closeCalled>>
             ELSE CleanupClose(closePages)
    /\ UNCHANGED <<currentActiveIndex, activeTasks, acq, now, extVars>>

\* The drain race settled: cleanup goes on whatever is still active.
CleanupDrained ==
    /\ cln.pc = "drain"
    /\ DrainSettled
    /\ CleanupClose(cln.closePages)
    /\ UNCHANGED <<rotationTimerId, currentActiveIndex, activeTasks, shuttingDown,
                   cleanupStarted, acq, now, extVars>>

\* CleanupClosed that also clears the shutdown flag, leaving the pool reusable.
CleanupClosedReopens ==
    /\ cln.pc = "closing"
    /\ pages' = << >>
    /\ cln' = [cln EXCEPT !.pc = "done"]
    /\ shuttingDown' = FALSE
    /\ invoked' = {}
    /\ UNCHANGED <<rotationTimerId, currentActiveIndex, activeTasks,
                   cleanupStarted, acq, closeCalled, now, extVars>>

\* Promise.all of the close calls settled: this.pages = [].
CleanupClosed ==
    /\ cln.pc = "closing"
    /\ pages' = << >>
    /\ cln' = [cln EXCEPT !.pc = "done"]
    /\ invoked' = {}
    /\ UNCHANGED <<rotationTimerId, currentActiveIndex, activeTasks, shuttingDown,
                   cleanupStarted, acq, closeCalled, now, extVars>>

\* ---- the pool's specification ----

\* No metadata was passed, exiftool was not run.
ExifIdle ==
    /\ tags = << >>
    /\ args = << >>

Init == PoolInit /\ ExifIdle

Next ==
    \/ Tick
    \/ \E c \in Calls : acquirePage(c)
    \/ \E c \in Calls : AcquireWake(c)
    \/ \E c \in Calls : AcquireActivated(c)
    \/ \E c \in Calls : AcquireActivationFailed(c)
    \/ \E c \in Calls : release(c)
    \/ cleanup
    \/ CleanupDrained
    \/ CleanupClosed

Spec == Init /\ [][Next]_vars

\* The event loop runs every callback that is ready (a timer that is due, the
\* continuation of a settled promise) and time goes on; page.close() settles.
\* Nothing makes a holder call release.
Fairness ==
    /\ WF_vars(Tick)
    /\ WF_vars(CleanupDrained)
    /\ WF_vars(CleanupClosed)
    /\ \A c \in RotCalls : WF_vars(AcquireWake(c))

\* The pool with fewer acquirePage calls, for the properties of its progress.
LiveNext ==
    \/ Tick
    \/ \E c \in RotCalls : acquirePage(c)
    \/ \E c \in RotCalls : AcquireWake(c)
    \/ \E c \in RotCalls : AcquireActivated(c)
    \/ \E c \in RotCalls : AcquireActivationFailed(c)
    \/ \E c \in RotCalls : release(c)
    \/ cleanup
    \/ CleanupDrained
    \/ CleanupClosed

LiveSpec == Init /\ [][LiveNext]_vars /\ Fairness

\* The pool under contention: one page, and every bringToFront that is awaited
\* resolves or rejects in the end.
ReturnInit == Init /\ Len(pages) = 1

ReturnFairness ==
    /\ WF_vars(Tick)
    /\ WF_vars(CleanupDrained)
    /\ WF_vars(CleanupClosed)
    /\ \A c \in Calls : WF_vars(AcquireWake(c))
    /\ \A c \in Calls : WF_vars(AcquireActivated(c))

ReturnSpec == ReturnInit /\ [][Next]_vars /\ ReturnFairness

\* ---- the pool with its rotation timer ----

RotNext ==
    \/ Tick
    \/ startRotation
    \/ stopRotation
    \/ rotateActivePage
    \/ \E c \in RotCalls : acquirePage(c)
    \/ \E c \in RotCalls : AcquireWake(c)
    \/ \E c \in RotCalls : AcquireActivated(c)
    \/ \E c \in RotCalls : AcquireActivationFailed(c)
    \/ \E c \in RotCalls : release(c)
    \/ cleanup
    \/ CleanupDrained
    \/ CleanupClosed

RotSpec == Init /\ [][RotNext]_vars

\* ---- SmartFrameCanvasExtractor.extractCanvasImage ----

DefaultInitialMs == 500
DefaultPostResizeMs == 750
DefaultMaxWaitMs == 30000
BaseDelayMs == 100
MaxDelayMs == 2000
MouseEvery == 5
DefaultMinFileSize == 51200
DefaultMinDimensions == 500

\* Configured values the runs are checked with; 0 stands for a value the
\* configuration does not set (undefined and 0 are both falsy for ||).
ConfiguredWaitMs == {0, 200}
ConfiguredMaxWaitMs == {0, 2000}
\* How long the awaited bringToFront may take.
OpMs == {0, 300}
\* Byte sizes and pixel dimensions the transcoded file may have.
FileSizes == {DefaultMinFileSize - 1, DefaultMinFileSize}
Dimensions == {DefaultMinDimensions - 1, DefaultMinDimensions}

\* The characters of [a-zA-Z0-9.\-_], one-character strings.
AllowedChars ==
    {"a", "b", "c", "d", "e", "f", "g", "h", "i", "j", "k", "l", "m",
     "n", "o", "p", "q", "r", "s", "t", "u", "v", "w", "x", "y", "z",
     "A", "B", "C", "D", "E", "F", "G", "H", "I", "J", "K", "L", "M",
     "N", "O", "P", "Q", "R", "S", "T", "U", "V", "W", "X", "Y", "Z",
     "0", "1", "2", "3", "4", "5", "6", "7", "8", "9", ".", "-", "_"}

\* The image ids the runs are checked with, as sequences of characters.
ImageIds == {<<"a", "1">>, <<"a", "/", "b">>, <<"I", " ", "#", ".", "_", "-", "Z">>}

\* The outputDir argument, kept as one token.
OutputDir == "outputDir"

\* sanitizedId that keeps only letters and digits.
sanitizedIdAlnumOnly ==
    [i \in 1..Len(xin.imageId) |->
        IF xin.imageId[i] \in AllowedChars \ {".", "-", "_"}
        THEN xin.imageId[i] ELSE "-"]

\* imageId.replace(/[^a-zA-Z0-9.\-_]/g, '-')
sanitizedId ==
    [i \in 1..Len(xin.imageId) |->
        IF xin.imageId[i] \in AllowedChars THEN xin.imageId[i] ELSE "-"]

\* path.join(outputDir, filename) for a filename without separators.
Join(dir, filename) == <<dir, "/">> \o filename

pngFilename == sanitizedId \o <<"_canvas_", xin.viewportMode, ".png">>
pngPath == Join(OutputDir, pngFilename)
jpgFilename == sanitizedId \o <<"_canvas_", xin.viewportMode, ".jpg">>
jpgPath == Join(OutputDir, jpgFilename)

\* JavaScript's  v || d  on a number.
OrDefault(v, d) == IF v = 0 THEN d ELSE v

initialStabilizationMs == OrDefault(xin.initialRenderWaitMs, DefaultInitialMs)
postResizeStabilizationMs == OrDefault(xin.postResizeWaitMs, DefaultPostResizeMs)
maxWaitMs == OrDefault(xin.maxRenderWaitMs, DefaultMaxWaitMs)

Min(a, b) == IF a < b THEN a ELSE b

\* delay without the cap.
delayUncapped(attempt) == BaseDelayMs * 2^attempt

\* Math.min(100 * Math.pow(2, attempt), 2000)
delay(attempt) == Min(BaseDelayMs * 2^attempt, MaxDelayMs)

\* A catch that rethrows what it caught.
CatchRethrows(err) ==
    /\ thrown' = err
    /\ result' = [kind |-> "raised", path |-> << >>]
    /\ xpc' = "done"

\* The outer catch: whatever was thrown is logged and the call returns null.
Catch(err) ==
    /\ thrown' = err
    /\ result' = Null
    /\ xpc' = "done"

Thrown(name, text, elapsed) ==
    [NoError EXCEPT !.name = name, !.text = text, !.elapsedMs = elapsed]

\* The call: the arguments and the configuration are fixed, bringToFront is
\* called on the page and awaited.
extractCanvasImage ==
    /\ xpc = "idle"
    /\ \E i \in ConfiguredWaitMs, r \in ConfiguredWaitMs, m \in ConfiguredMaxWaitMs,
          id \in ImageIds, v \in {"full", "thumbnail"}, md \in BOOLEAN :
          xin' = [initialRenderWaitMs |-> i, postResizeWaitMs |-> r,
                  maxRenderWaitMs |-> m, imageId |-> id, viewportMode |-> v,
                  metadata |-> md]
    /\ xpc' = "front"
    /\ UNCHANGED <<xnow, xwake, signal, poll, imageDataUrl, files, thrown, result,
                   xhist, poolVars, exifVars>>

\* The in-page hook (or anything else in the page) rewrites the attributes of the
\* signal element, at any moment up to the run's last read of it: data-url with
\* the PNG prefix ("png") or without it ("other"), data-error with a text.
SignalWrite ==
    /\ xpc \in {"front", "stab1", "stab2", "check", "sleep", "mouse", "timeoutRead",
                "readData", "readErr"}
    /\ \E d \in {"absent", "png", "other"}, e \in {"absent", "E1"} :
          /\ [data |-> d, error |-> e] # signal
          /\ signal' = [data |-> d, error |-> e]
    /\ xhist' = [xhist EXCEPT !.early = @ \/ xpc \in {"front", "stab1", "stab2"},
                              !.signalled = TRUE,
                              !.inTime = \/ xpc \in {"front", "stab1", "stab2"}
                                         \/ /\ xpc \in {"check", "sleep", "mouse"}
                                            /\ xnow - poll.startTime < maxWaitMs]
    /\ UNCHANGED <<xpc, xnow, xwake, xin, poll, imageDataUrl, files, thrown, result,
                   poolVars, exifVars>>

\* An awaited page operation outside any inner try or catch rejects (the page
\* crashed or was closed, the element is gone): the outer catch returns null.
PageOpRejected ==
    /\ xpc \in {"front", "check", "readData", "readErr"}
    /\ Catch(Thrown("Error", xpc, 0))
    /\ UNCHANGED <<xnow, xwake, xin, signal, poll, imageDataUrl, files, xhist,
                   poolVars, exifVars>>

\* bringToFront resolved: wait(initialStabilizationMs) starts.
FrontResolved ==
    /\ xpc = "front"
    /\ \E d \in OpMs : xnow' = xnow + d
    /\ xhist' = [xhist EXCEPT !.frontAt = xnow']
    /\ xwake' = xnow' + initialStabilizationMs
    /\ xpc' = "stab1"
    /\ UNCHANGED <<xin, signal, poll, imageDataUrl, files, thrown, result, poolVars, exifVars>>

\* InitialWaitDone that starts polling at once, without the post-resize wait.
InitialWaitDoneStartsPolling ==
    /\ xpc = "stab1"
    /\ xnow' = xwake
    /\ poll' = [startTime |-> xnow', attempt |-> 0, canvasReady |-> FALSE]
    /\ xpc' = "check"
    /\ xhist' = [xhist EXCEPT !.checks = @ + 1,
                              !.firstCheckAt = IF @ = -1 THEN xnow' ELSE @]
    /\ UNCHANGED <<xwake, xin, signal, imageDataUrl, files, thrown, result, poolVars, exifVars>>

\* The initial wait elapsed: wait(postResizeStabilizationMs) starts.
InitialWaitDone ==
    /\ xpc = "stab1"
    /\ xnow' = xwake
    /\ xwake' = xnow' + postResizeStabilizationMs
    /\ xpc' = "stab2"
    /\ UNCHANGED <<xin, signal, poll, imageDataUrl, files, thrown, result, xhist,
                   poolVars, exifVars>>

\* LoopTest that gives up after three sleeps instead of testing the elapsed time.
LoopTestCountsAttempts(t, pl, h) ==
    IF pl.attempt < 3 /\ ~pl.canvasReady
    THEN /\ xpc' = "check"
         /\ xhist' = [h EXCEPT !.checks = @ + 1,
                               !.firstCheckAt = IF @ = -1 THEN t ELSE @]
    ELSE /\ xpc' = "timeoutRead"
         /\ xhist' = h

\* The test of the polling loop at time t with loop state pl: one more check of
\* the signal element (page.$ is called), or the loop ends without a signal and
\* the error attribute is read once more.
LoopTest(t, pl, h) ==
    IF t - pl.startTime < maxWaitMs /\ ~pl.canvasReady
    THEN /\ xpc' = "check"
         /\ xhist' = [h EXCEPT !.checks = @ + 1,
                               !.firstCheckAt = IF @ = -1 THEN t ELSE @]
    ELSE /\ xpc' = "timeoutRead"
         /\ xhist' = h

\* The post-resize wait elapsed: the polling loop starts.
PostResizeWaitDone ==
    /\ xpc = "stab2"
    /\ xnow' = xwake
    /\ poll' = [startTime |-> xnow', attempt |-> 0, canvasReady |-> FALSE]
    /\ LoopTest(xnow', poll', xhist)
    /\ UNCHANGED <<xwake, xin, signal, imageDataUrl, files, thrown, result, poolVars, exifVars>>

\* page.$ resolved: with a data-url or a data-error attribute on the element the
\* loop breaks and data-url is read, else the run sleeps delay(attempt).
CheckResolved ==
    /\ xpc = "check"
    /\ xnow' = xnow
    /\ IF signal.data # "absent" \/ signal.error # "absent"
       THEN /\ poll' = [poll EXCEPT !.canvasReady = TRUE]
            /\ xpc' = "readData"
            /\ UNCHANGED <<xwake, xhist>>
       ELSE /\ xwake' = xnow' + delay(poll.attempt)
            /\ xhist' = [xhist EXCEPT !.lastDelay = delay(poll.attempt)]
            /\ xpc' = "sleep"
            /\ UNCHANGED poll
    /\ UNCHANGED <<xin, signal, imageDataUrl, files, thrown, result, poolVars, exifVars>>

\* The sleep elapsed: attempt++, every 5th attempt a mouse move is awaited, else
\* the loop test follows.
SleepDone ==
    /\ xpc = "sleep"
    /\ xnow' = xwake
    /\ poll' = [poll EXCEPT !.attempt = @ + 1]
    /\ IF poll'.attempt % MouseEvery = 0
       THEN /\ xpc' = "mouse"
            /\ xhist' = [xhist EXCEPT !.mouseMoves = @ + 1]
       ELSE LoopTest(xnow', poll', xhist)
    /\ UNCHANGED <<xwake, xin, signal, imageDataUrl, files, thrown, result, poolVars, exifVars>>

\* mouse.move settled, resolved or rejected alike.
MouseSettled ==
    /\ xpc = "mouse"
    /\ LoopTest(xnow, poll, xhist)
    /\ UNCHANGED <<xnow, xwake, xin, signal, poll, imageDataUrl, files, thrown, result,
                   poolVars, exifVars>>

\* The loop ended without a signal: data-error is read once more (a failure of
\* the read gives null) and CanvasTimeoutError is thrown.
TimeoutRead ==
    /\ xpc = "timeoutRead"
    /\ Catch([name |-> "CanvasTimeoutError", text |-> "none",
              elapsedMs |-> xnow - poll.startTime, maxWaitMs |-> maxWaitMs,
              lastKnownError |-> IF signal.error = "E1" THEN "E1" ELSE "null"])
    /\ UNCHANGED <<xnow, xwake, xin, signal, poll, imageDataUrl, files, xhist,
                   poolVars, exifVars>>

\* data-url was read; data-error is read next.
DataRead ==
    /\ xpc = "readData"
    /\ imageDataUrl' = IF signal.data = "absent" THEN "null" ELSE signal.data
    /\ xpc' = "readErr"
    /\ UNCHANGED <<xnow, xwake, xin, signal, poll, files, thrown, result, xhist,
                   poolVars, exifVars>>

\* ErrorRead that tests the payload before the error text.
ErrorReadPayloadFirst ==
    /\ xpc = "readErr"
    /\ xhist' = [xhist EXCEPT !.errorFromExtension = signal.error]
    /\ IF imageDataUrl = "png"
       THEN /\ files' = files \cup {pngPath}
            /\ xpc' = "transcode"
            /\ UNCHANGED <<thrown, result>>
       ELSE /\ Catch(Thrown("CanvasExtensionError", signal.error, xnow - poll.startTime))
            /\ UNCHANGED files
    /\ UNCHANGED <<xnow, xwake, xin, signal, poll, imageDataUrl, poolVars, exifVars>>

\* data-error was read: a non-empty error text is thrown as CanvasExtensionError,
\* so is a data-url without the PNG prefix; else the payload is written as the
\* intermediate PNG (writeFileSync may throw) and the transcode is awaited.
ErrorRead ==
    /\ xpc = "readErr"
    /\ xhist' = [xhist EXCEPT !.errorFromExtension = signal.error]
    /\ IF signal.error = "E1"
       THEN /\ Catch(Thrown("CanvasExtensionError", "E1", xnow - poll.startTime))
            /\ UNCHANGED files
       ELSE IF imageDataUrl # "png"
       THEN /\ Catch(Thrown("CanvasExtensionError", "No valid canvas data URL received",
                            xnow - poll.startTime))
            /\ UNCHANGED files
       ELSE \E written \in BOOLEAN :
               IF written
               THEN /\ files' = files \cup {pngPath}
                    /\ xpc' = "transcode"
                    /\ UNCHANGED <<thrown, result>>
               ELSE /\ Catch(Thrown("Error", "writeFileSync", 0))
                    /\ UNCHANGED files
    /\ UNCHANGED <<xnow, xwake, xin, signal, poll, imageDataUrl, poolVars, exifVars>>

\* sharp(...).toFile(jpgPath) settled.  Rejected: the error goes to the outer
\* catch.  Resolved: the PNG is unlinked and the JPG's size is tested against
\* minValidFileSize; too small, the JPG is unlinked and CanvasExtensionError is
\* thrown, else the dimensions are read.
TranscodeSettled ==
    /\ xpc = "transcode"
    /\ \E ok \in BOOLEAN, fileSizeBytes \in FileSizes :
          IF ~ok
          THEN /\ Catch(Thrown("Error", "sharp", 0))
               /\ UNCHANGED <<files, xhist>>
          ELSE /\ xhist' = [xhist EXCEPT !.fileSizeBytes = fileSizeBytes]
               /\ IF fileSizeBytes < DefaultMinFileSize
                  THEN /\ files' = files \ {pngPath, jpgPath}
                       /\ Catch(Thrown("CanvasExtensionError", "size",
                                       xnow - poll.startTime))
                  ELSE /\ files' = (files \cup {jpgPath}) \ {pngPath}
                       /\ xpc' = "dims"
                       /\ UNCHANGED <<thrown, result>>
    /\ UNCHANGED <<xnow, xwake, xin, signal, poll, imageDataUrl, poolVars, exifVars>>

\* DimensionsRead that throws on small dimensions without unlinking the JPG.
DimensionsReadKeepsFile ==
    /\ xpc = "dims"
    /\ \E width \in Dimensions, height \in Dimensions :
          /\ xhist' = [xhist EXCEPT !.width = width, !.height = height]
          /\ IF width < DefaultMinDimensions \/ height < DefaultMinDimensions
             THEN /\ Catch(Thrown("CanvasExtensionError", "dimensions",
                                  xnow - poll.startTime))
                  /\ UNCHANGED files
             ELSE IF xin.metadata
             THEN /\ xpc' = "exif"
                  /\ UNCHANGED <<files, thrown, result>>
             ELSE /\ xpc' = "done"
                  /\ result' = Returned(jpgPath)
                  /\ UNCHANGED <<files, thrown>>
    /\ UNCHANGED <<xnow, xwake, xin, signal, poll, imageDataUrl, poolVars, exifVars>>

\* DimensionsRead that runs exiftool before it tests the dimensions.
DimensionsReadEmbedsFirst ==
    /\ xpc = "dims"
    /\ \E width \in Dimensions, height \in Dimensions :
          /\ xhist' = [xhist EXCEPT !.width = width, !.height = height]
          /\ IF xin.metadata
             THEN /\ xpc' = "exif"
                  /\ UNCHANGED <<files, thrown, result>>
             ELSE IF width < DefaultMinDimensions \/ height < DefaultMinDimensions
             THEN /\ files' = files \ {jpgPath}
                  /\ Catch(Thrown("CanvasExtensionError", "dimensions",
                                  xnow - poll.startTime))
             ELSE /\ xpc' = "done"
                  /\ result' = Returned(jpgPath)
                  /\ UNCHANGED <<files, thrown>>
    /\ UNCHANGED <<xnow, xwake, xin, signal, poll, imageDataUrl, poolVars, exifVars>>

\* sharp(jpgPath).metadata() settled.  Rejected: the error goes to the outer
\* catch.  Resolved: with width or height below minValidDimensions the JPG is
\* unlinked and CanvasExtensionError is thrown; else exiftool is run when
\* metadata was passed, and without metadata the path is returned.
DimensionsRead ==
    /\ xpc = "dims"
    /\ \/ /\ Catch(Thrown("Error", "metadata", 0))
          /\ UNCHANGED <<files, xhist>>
       \/ \E width \in Dimensions, height \in Dimensions :
             /\ xhist' = [xhist EXCEPT !.width = width, !.height = height]
             /\ IF width < DefaultMinDimensions \/ height < DefaultMinDimensions
                THEN /\ files' = files \ {jpgPath}
                     /\ Catch(Thrown("CanvasExtensionError", "dimensions",
                                     xnow - poll.startTime))
                ELSE IF xin.metadata
                THEN /\ xpc' = "exif"
                     /\ UNCHANGED <<files, thrown, result>>
                ELSE /\ xpc' = "done"
                     /\ result' = Returned(jpgPath)
                     /\ UNCHANGED <<files, thrown>>
    /\ UNCHANGED <<xnow, xwake, xin, signal, poll, imageDataUrl, poolVars, exifVars>>

\* ExifSettled in which embedExifMetadata rejects unless exiftool exits with 0.
ExifSettledRejects ==
    /\ xpc = "exif"
    /\ \E outcome \in {"exit0", "nonzero", "spawnError"} :
          /\ xhist' = [xhist EXCEPT !.exif = outcome]
          /\ IF outcome = "exit0"
             THEN /\ xpc' = "done"
                  /\ result' = Returned(jpgPath)
                  /\ UNCHANGED thrown
             ELSE Catch(Thrown("Error", "exiftool", 0))
    /\ UNCHANGED <<xnow, xwake, xin, signal, poll, imageDataUrl, files, poolVars, exifVars>>

\* embedExifMetadata resolved, which it does on exit code 0, on any other exit
\* code and on a spawn error: the path is returned.
ExifSettled ==
    /\ xpc = "exif"
    /\ \E outcome \in {"exit0", "nonzero", "spawnError"} :
          xhist' = [xhist EXCEPT !.exif = outcome]
    /\ xpc' = "done"
    /\ result' = Returned(jpgPath)
    /\ UNCHANGED <<xnow, xwake, xin, signal, poll, imageDataUrl, files, thrown,
                   poolVars, exifVars>>

ExtInit == Init /\ Len(pages) = 1

ExtNext ==
    \/ extractCanvasImage
    \/ SignalWrite
    \/ PageOpRejected
    \/ FrontResolved
    \/ InitialWaitDone
    \/ PostResizeWaitDone
    \/ CheckResolved
    \/ SleepDone
    \/ MouseSettled
    \/ TimeoutRead
    \/ DataRead
    \/ ErrorRead
    \/ TranscodeSettled
    \/ DimensionsRead
    \/ ExifSettled

ExtractSpec == ExtInit /\ [][ExtNext]_vars

\* ---- SmartFrameCanvasExtractor.embedExifMetadata: the keyword arguments ----

\* The metadata.tags values the argument list is checked with: every string of at
\* most MaxTagsLen characters over two letters, the blank and the comma, and the
\* value "a, b ,b,".
MaxTagsLen == 4
TagChars == {"a", "b", " ", ","}
TagsValues ==
    UNION {[1..n -> TagChars] : n \in 0..MaxTagsLen}
        \cup {<<"a", ",", " ", "b", " ", ",", "b", ",">>}

\* String.prototype.split(','): the pieces between the commas, empty ones kept.
RECURSIVE split(_)
split(str) ==
    IF \A i \in 1..Len(str) : str[i] # ","
    THEN <<str>>
    ELSE LET i == CHOOSE k \in 1..Len(str) :
                     str[k] = "," /\ \A j \in 1..(k - 1) : str[j] # ","
         IN  <<SubSeq(str, 1, i - 1)>> \o split(SubSeq(str, i + 1, Len(str)))

\* String.prototype.trim(): without the blanks at both ends.
RECURSIVE trim(_)
trim(t) ==
    IF t = << >> THEN t
    ELSE IF Head(t) = " " THEN trim(Tail(t))
    ELSE IF t[Len(t)] = " " THEN trim(SubSeq(t, 1, Len(t) - 1))
    ELSE t

\* metadata.tags.split(',').map(t => t.trim()).filter(t => t)
tagList(str) ==
    LET pieces == split(str)
        trimmed == [i \in 1..Len(pieces) |-> trim(pieces[i])]
    IN  SelectSeq(trimmed, LAMBDA t : t # << >>)

\* One argument of the form -TAG+=value.
Keyword(tag, value) == [arg |-> tag, op |-> "+=", value |-> value]

\* tagList.forEach: -IPTC:Keywords+=tag and -XMP:Subject+=tag for each element.
RECURSIVE forEach(_)
forEach(list) ==
    IF list = << >> THEN << >>
    ELSE <<Keyword("-IPTC:Keywords", Head(list)), Keyword("-XMP:Subject", Head(list))>>
             \o forEach(Tail(list))

\* embedExifMetadata(jpgPath, metadata) with only metadata.tags set, up to the
\* spawn: -overwrite_original, the keyword arguments when tags is non-empty and
\* has a non-empty tag, then the path.
embedExifMetadata ==
    /\ args = << >>
    /\ args' = <<"-overwrite_original">>
                   \o (IF tags # << >> THEN forEach(tagList(tags)) ELSE << >>)
                   \o <<jpgPath>>
    /\ UNCHANGED <<tags, xpc, xnow, xwake, xin, signal, poll, imageDataUrl, files,
                   thrown, result, xhist, poolVars>>

ExifInit ==
    /\ PoolInit
    /\ Len(pages) = 1
    /\ tags \in TagsValues
    /\ args = << >>

ExifNext == embedExifMetadata

ExifSpec == ExifInit /\ [][ExifNext]_vars

\* ---- properties of the pool ----

\* Call c was granted a slot and has not called its release.
Holds(c) == acq[c].pc = "holding" /\ ~acq[c].released

SlotBusy == \E i \in 1..Len(pages) : pages[i].busy

AllBusy == Len(pages) > 0 /\ \A i \in 1..Len(pages) : pages[i].busy

\* C1: mutual exclusion.  No page slot is held at the same time by two calls that
\* were each granted it and have not yet called their own release, whatever the
\* number of times and the moments the release callbacks are called.
C1_MutualExclusion ==
    \A c, d \in Calls :
        (c # d /\ Holds(c) /\ Holds(d)) => acq[c].slot # acq[d].slot

\* C2: once cleanup has set the shutdown flag, no acquirePage call returns a page
\* capability, whether it was started after the flag was set or was in progress.
C2_NoGrantAfterShutdown ==
    [][shuttingDown =>
          \A c \in Calls : acq'[c].result = "cap" => acq[c].result = "cap"]_vars

\* C3: drain.  cleanup calls close on the pages or empties the slot list only when
\* no slot is marked busy, or when timeoutMs has elapsed since its drain wait began.
C3_DrainWaitsForBusy ==
    [][(cln.pc \in {"idle", "drain"} /\ cln'.pc \in {"closing", "done"}) =>
          (~SlotBusy \/ (cln.pc = "drain" /\ cln.deadline <= now))]_vars

\* C4: at most N calls hold a slot of a pool of N pages at the same time, and
\* while all N slots are busy a slot becomes free (so that a waiting acquirePage
\* can be granted it) only by a holder calling its release.
C4_AtMostNHolders ==
    /\ [](cln.pc # "done" => Cardinality({c \in Calls : Holds(c)}) <= Len(pages))
    /\ [][(AllBusy /\ ~AllBusy' /\ Len(pages') = Len(pages)) =>
             \E c \in Calls : Holds(c) /\ ~Holds(c)']_vars

\* C5: after cleanup has completed, every acquirePage call returns null in the
\* step of the call: it does not park, marks no slot busy, registers no task and
\* calls no page operation, whatever its timeoutMs.
C5_NoSlotAfterCleanup ==
    [][\A c \in Calls :
          (cln.pc = "done" /\ acq[c].pc = "idle" /\ acq'[c].pc # "idle") =>
              /\ acq'[c].pc = "done" /\ acq'[c].result = "null"
              /\ pages' = pages /\ activeTasks' = activeTasks /\ invoked' = {}]_vars

\* A call made after cleanup completed, with time left on its timeout, got null.
C5_Witness ==
    \E c \in Calls : acq[c].during = "done" /\ acq[c].result = "null"
                     /\ acq[c].log = "shutdown"

\* C6: an acquirePage call parked for a free slot while the shutdown flag is set
\* returns null at its next check, which comes no later than the end of the poll
\* interval it is in, and the check marks no slot busy: it takes no slot, freed
\* during the drain or not.
C6_WaiterFailsFast ==
    [][\A c \in Calls :
          (acq[c].pc = "wait" /\ shuttingDown /\ acq'[c] # acq[c]) =>
              /\ acq'[c].pc = "done" /\ acq'[c].result = "null"
              /\ now <= acq[c].wakeAt
              /\ pages' = pages /\ invoked' = {}]_vars

\* A call made before cleanup returned null on the shutdown test while cleanup was
\* draining and a slot was free.
C6_Witness ==
    \E c \in Calls : /\ acq[c].during = "idle" /\ acq[c].log = "shutdown"
                     /\ cln.pc = "drain"
                     /\ \E i \in 1..Len(pages) : ~pages[i].busy

\* C7: release is idempotent.  A second or later call of a release callback
\* leaves every busy flag and the active-task set as they were.
C7_ReleaseIdempotent ==
    [][\A c \in Calls :
          (acq[c].released /\ release(c)) =>
              (pages' = pages /\ activeTasks' = activeTasks)]_vars

\* C8: cleanup terminates.  Once called it reaches its end with the slot list
\* empty, whether or not the holders release; while it waits in the drain the
\* clock never passes the drain's deadline; when every task it waits for is
\* released it goes on before the clock moves; and when it goes on with
\* closePages it calls close on every page of the pool, without it on none.
C8_CleanupTerminates ==
    /\ (cln.pc # "idle") ~> (cln.pc = "done" /\ pages = << >>)
    /\ [](cln.pc = "drain" => now <= cln.deadline)
    /\ [][(cln.pc = "drain" /\ cln.tasks \cap activeTasks = {}) => now' = now]_vars
    /\ [][(cln.pc # "closing" /\ cln'.pc = "closing") =>
             /\ cln'.closePages
             /\ closeCalled' = {pages[i].page : i \in 1..Len(pages)}
             /\ invoked' = {Op("close", pages[i].page) : i \in 1..Len(pages)}]_vars
    /\ [](cln.pc = "done" => (cln.closePages <=> closeCalled # {}))

\* cleanup ended with the pages closed while a task it waited for was never
\* released: the drain ended by its timeout.
C8_Witness ==
    /\ cln.pc = "done" /\ pages = << >> /\ closeCalled # {}
    /\ cln.tasks \cap activeTasks # {}

C10_CheckAfterStabilization ==
    /\ xpc \in {"idle", "front", "stab1", "stab2"} => xhist.checks = 0
    /\ xhist.checks > 0 =>
          /\ xhist.frontAt # -1
          /\ xhist.firstCheckAt >=
                xhist.frontAt + initialStabilizationMs + postResizeStabilizationMs

\* The first check is under way in a run whose signal element was written during
\* the stabilization waits and carries a payload.
C10_Witness ==
    /\ xpc = "check" /\ xhist.checks = 1
    /\ xhist.early /\ signal.data = "png"

\* C11: with no data-url and no data-error attribute ever on the signal element,
\* the polling loop ends only once at least maxWaitMs has elapsed since polling
\* began, and a run that ends (no page operation having rejected) ends with
\* CanvasTimeoutError, elapsedMs >= maxWaitMs, lastKnownError null, returning null.
C11_SilentRunTimesOut ==
    /\ (xpc = "timeoutRead" /\ ~xhist.signalled) =>
          xnow - poll.startTime >= maxWaitMs
    /\ (xpc = "done" /\ ~xhist.signalled /\ thrown.name # "Error") =>
          /\ thrown.name = "CanvasTimeoutError"
          /\ thrown.elapsedMs >= maxWaitMs
          /\ thrown.maxWaitMs = maxWaitMs
          /\ thrown.lastKnownError = "null"
          /\ result = Null

C11_Witness ==
    /\ xpc = "done" /\ ~xhist.signalled
    /\ xin.maxRenderWaitMs = 2000
    /\ thrown.name = "CanvasTimeoutError"
    /\ xhist.checks > 1

\* C12: error wins the tie-break.  Whenever the data-error read after a successful
\* poll returns an error text, the run ends with CanvasExtensionError carrying that
\* text and neither the intermediate PNG nor the final JPG is written, also when
\* the data-url read before it returned a well-formed PNG payload.
C12_ErrorWins ==
    xhist.errorFromExtension = "E1" =>
        /\ xpc = "done"
        /\ thrown.name = "CanvasExtensionError"
        /\ thrown.text = "E1"
        /\ files = {}

C12_Witness ==
    /\ xhist.errorFromExtension = "E1"
    /\ imageDataUrl = "png"
    /\ xpc = "done"

\* C13: with only an error attribute on the signal element (the data-url read
\* returned null, the data-error read returned the text), what the call returns
\* to its caller is a failure carrying that exact error text, and no file was
\* written.
C13_ErrorTextReturned ==
    (xpc = "done" /\ xhist.errorFromExtension = "E1" /\ imageDataUrl = "null") =>
        /\ result.kind = "failure"
        /\ files = {}

\* C14: the call never raises to its caller.  Every failure raised inside it
\* (activation, timeout, extension error, malformed payload, file write,
\* transcode, validation) ends the call with null returned, and a path is
\* returned only by a run in which nothing was thrown.
C14_NeverRaises ==
    /\ thrown # NoError => (xpc = "done" /\ result = Null)
    /\ xpc = "done" => result.kind \in {"null", "path"}
    /\ result.kind = "path" => (xpc = "done" /\ thrown = NoError)

C14_Witness ==
    /\ xpc = "done"
    /\ thrown.name = "Error" /\ thrown.text = "sharp"
    /\ result = Null

\* C15: a failure of the transcode step is not caught by the call: it reaches the
\* caller as a failure of the request and is not turned into the null result.
C15_TranscodeFailurePropagates ==
    (xpc = "done" /\ thrown.text = "sharp") => result.kind = "raised"

\* C16: when the transcoded file's size is below the minimum byte size, or its
\* width or height is below the minimum dimension, the call has ended with null,
\* the final JPG is not on disk and exiftool was not run.
C16_InvalidFileRemoved ==
    (\/ xhist.fileSizeBytes \in 0..(DefaultMinFileSize - 1)
     \/ xhist.width \in 0..(DefaultMinDimensions - 1)
     \/ xhist.height \in 0..(DefaultMinDimensions - 1)) =>
        /\ xpc = "done"
        /\ result = Null
        /\ thrown.name = "CanvasExtensionError"
        /\ jpgPath \notin files
        /\ xhist.exif = "none"

C16_Witness ==
    /\ xpc = "done"
    /\ xin.metadata
    /\ xhist.fileSizeBytes >= DefaultMinFileSize
    /\ xhist.width >= DefaultMinDimensions
    /\ xhist.height \in 0..(DefaultMinDimensions - 1)

\* C17: metadata embedding never changes the outcome.  Once exiftool was run
\* (the file passed validation and metadata was supplied), the call returns the
\* final file's path and the file stays on disk, whether exiftool exited with 0,
\* exited with another code or could not be spawned.
C17_MetadataNeverFails ==
    /\ xpc = "exif" =>
          (xin.metadata /\ jpgPath \in files /\ thrown = NoError)
    /\ xhist.exif # "none" =>
          /\ xpc = "done"
          /\ thrown = NoError
          /\ result = Returned(jpgPath)
          /\ jpgPath \in files

C17_Witness ==
    /\ xpc = "done"
    /\ xhist.exif = "spawnError"
    /\ result.kind = "path"

\* The trimmed non-empty tokens of a comma-separated value: what stands between
\* two neighbouring separators (or ends), without the blanks around it.
Tokens(str) ==
    LET Sep(i) == i = 0 \/ i = Len(str) + 1 \/ str[i] = ","
    IN  {SubSeq(str, a, b) :
            <<a, b>> \in {<<a, b>> \in (1..Len(str)) \X (1..Len(str)) :
                /\ a <= b
                /\ str[a] # " " /\ str[b] # " "
                /\ \A k \in a..b : str[k] # ","
                /\ \E i \in 0..(a - 1) :
                      Sep(i) /\ \A k \in (i + 1)..(a - 1) : str[k] = " "
                /\ \E j \in (b + 1)..(Len(str) + 1) :
                      Sep(j) /\ \A k \in (b + 1)..(j - 1) : str[k] = " "}}

\* C18: for every comma-separated tags value the arguments handed to exiftool
\* contain, for each of the two keyword tags, each distinct trimmed non-empty
\* token exactly once, and no keyword argument for anything else (so "a, b ,b,"
\* gives a and b, each added once).
C18_EachKeywordOnce ==
    args # << >> =>
        \A tag \in {"-IPTC:Keywords", "-XMP:Subject"} :
            /\ \A t \in Tokens(tags) :
                  Cardinality({k \in 2..(Len(args) - 1) :
                                  args[k] = Keyword(tag, t)}) = 1
            /\ \A k \in 2..(Len(args) - 1) :
                  args[k].arg = tag => args[k].value \in Tokens(tags)

\* C19: on every successful extraction the returned path is outputDir joined
\* with {sanitizedImageId}_canvas_{renderMode}.jpg, where sanitizedImageId is
\* imageId with every character outside [A-Za-z0-9._-] replaced by a hyphen; the
\* final file exists and the intermediate {sanitizedImageId}_canvas_{renderMode}.png
\* does not.
C19_ReturnedPath ==
    result.kind = "path" =>
        LET id == xin.imageId
            n == Len(id)
            p == result.path
        IN  /\ Len(p) = n + 5
            /\ p[1] = OutputDir /\ p[2] = "/"
            /\ \A i \in 1..n :
                  p[i + 2] = (IF id[i] \in AllowedChars THEN id[i] ELSE "-")
            /\ p[n + 3] = "_canvas_"
            /\ p[n + 4] = xin.viewportMode
            /\ p[n + 5] = ".jpg"
            /\ p \in files
            /\ [p EXCEPT ![n + 5] = ".png"] \notin files

C19_Witness ==
    /\ xpc = "done"
    /\ xin.imageId = <<"a", "/", "b">>
    /\ result.path = <<"outputDir", "/", "a", "-", "b", "_canvas_", "thumbnail", ".jpg">>
    /\ files = {result.path}

\* C20: the sleep after the k-th unsuccessful check (k from 0) is exactly
\* min(100 * 2^k, 2000) ms: 100, 200, 400, 800, 1600, then 2000 for every later
\* check; no sleep exceeds 2000 ms, and no check is made once maxWaitMs has
\* elapsed since polling began.
C20_BackoffSchedule ==
    /\ xpc = "sleep" =>
          LET k == xhist.checks - 1
              expected == IF k >= 5 THEN 2000
                          ELSE <<100, 200, 400, 800, 1600>>[k + 1]
          IN  /\ xwake - xnow = expected
              /\ xhist.lastDelay = expected
              /\ expected <= 2000
    /\ xhist.lastDelay <= 2000
    /\ xpc = "check" => xnow - poll.startTime < maxWaitMs

C20_Witness ==
    /\ xpc = "sleep"
    /\ xhist.checks = 7
    /\ xwake - xnow = 2000

\* ---- further properties of the pool ----

\* C21: when cleanup is called, every acquirePage call parked for a free slot is
\* woken by the cleanup-started signal at that moment, not only by its own 100 ms
\* timer: once cleanupStarted is resolved, the race of every parked call is
\* settled by its cleanupWatcher, also for calls parked before cleanup was called.
C21_CleanupWakesWaiters ==
    \A c \in Calls :
        (acq[c].pc = "wait" /\ cleanupStarted = "resolved") =>
            /\ acq[c].watcher = "cleanup"
            /\ RaceSettled(c)

\* C22: every acquirePage call returns in the end, provided bringToFront settles.
\* It is granted only a slot whose busy flag was false; it returns null only with
\* the shutdown flag set or with timeoutMs elapsed; while parked it has not passed
\* its deadline, so it returns null no later than one poll interval after it; and
\* once it has returned the pool does nothing more on its behalf.
C22_AcquireReturns ==
    /\ \A c \in Calls :
          (acq[c].pc \in {"wait", "front"}) ~> (acq[c].pc \in {"holding", "done"})
    /\ [](\A c \in Calls :
             acq[c].pc = "wait" => (now <= acq[c].wakeAt /\ now <= acq[c].deadline))
    /\ [][\A c \in Calls :
             /\ (acq[c].pc # "front" /\ acq'[c].pc = "front") =>
                    ~pages[acq'[c].slot + 1].busy
             /\ (acq[c].pc = "wait" /\ acq'[c].log = "timeout") =>
                    now >= acq[c].deadline
             /\ (acq[c].pc # "done" /\ acq'[c].log = "shutdown") => shuttingDown
             /\ (acq[c].pc # "done" /\ acq'[c].pc = "done"
                    /\ acq'[c].result = "null") =>
                    acq'[c].log \in {"timeout", "shutdown"}
             /\ acq[c].pc = "done" => acq'[c] = acq[c]]_vars

\* A parked call was beaten to the freed slot by a later call and timed out.
C22_Witness ==
    \E a \in Calls, c \in Calls, d \in Calls :
        /\ a < c /\ c < d
        /\ acq[a].released
        /\ acq[c].pc = "done" /\ acq[c].log = "timeout" /\ acq[c].waited
        /\ Holds(d)
        /\ ~shuttingDown

\* C23: a rotation tick changes only the cursor and the lastActivated stamp of
\* the slot the cursor now points at; every busy flag, the active-task set, the
\* shutdown flag and the slot list stay as they are.  A busy flag changes only in
\* a step of an acquirePage call or of a release.
C23_RotationTouchesOnlyStamp ==
    /\ [][rotateActivePage =>
             /\ Len(pages') = Len(pages)
             /\ \A i \in 1..Len(pages) :
                   /\ pages'[i].page = pages[i].page
                   /\ pages'[i].busy = pages[i].busy
                   /\ i # currentActiveIndex' + 1 =>
                          pages'[i].lastActivated = pages[i].lastActivated
             /\ activeTasks' = activeTasks
             /\ shuttingDown' = shuttingDown]_vars
    /\ [][\A i \in 1..Len(pages) :
             (i <= Len(pages') /\ pages'[i].busy # pages[i].busy) =>
                 \E c \in Calls :
                     \/ acq[c].pc \in {"idle", "wait"} /\ acq'[c].pc = "front"
                     \/ release(c)]_vars

\* A rotation tick has just stamped a busy slot, at a later time than the grant.
C23_Witness ==
    \E i \in 1..Len(pages) :
        /\ pages[i].busy
        /\ currentActiveIndex = i - 1
        /\ invoked = {Op("mouse.move", pages[i].page)}
        /\ pages[i].lastActivated = now /\ now > 0
        /\ activeTasks # {}

\* C24: a rotation tick that starts with the shutdown flag set does nothing: the
\* cursor stays, no lastActivated is stamped and mouse.move is called on no page;
\* and the call of cleanup leaves no rotation timer running.
C24_RotationStopsAtShutdown ==
    /\ [][(shuttingDown /\ rotateActivePage) =>
             /\ currentActiveIndex' = currentActiveIndex
             /\ pages' = pages
             /\ invoked' = {}]_vars
    /\ [][(cln.pc = "idle" /\ cln'.pc # "idle") => ~rotationTimerId']_vars
    /\ [][(rotationTimerId /\ ~rotationTimerId') =>
             \/ cln.pc = "idle" /\ cln'.pc # "idle"
             \/ stopRotation]_vars

\* The pool is shutting down with pages still in it and a rotation timer runs
\* (started after cleanup was called): its ticks fall on the shutdown test.
C24_Witness ==
    /\ shuttingDown
    /\ rotationTimerId
    /\ cln.pc = "drain"
    /\ Len(pages) > 0
    /\ ENABLED rotateActivePage

\* C26: an acquirePage call that returns no capability leaves no slot busy on
\* its account: when bringToFront fails after a free slot was chosen, that slot's
\* busy flag is false again and the active-task set is unchanged, so a later
\* acquirePage can be granted the slot.
C26_FailedAcquireFreesSlot ==
    [][\A c \in Calls :
          (acq[c].pc = "front" /\ acq'[c].pc = "done") =>
              /\ ~pages'[acq[c].slot + 1].busy
              /\ activeTasks' = activeTasks]_vars

\* ---- further properties of the extractor ----

\* The stage of the request's state machine a state of the run is in.  A run that
\* has ended is in the stage of its outcome; Failed is the end of a run in which
\* an operation of the page, the file system or the transcoder failed.
Stage ==
    CASE xpc \in {"idle", "front"} -> "HookInstalled"
      [] xpc \in {"stab1", "stab2"} -> "Stabilizing"
      [] xpc \in {"check", "sleep", "mouse", "timeoutRead", "readData", "readErr"} ->
            "Polling"
      [] xpc \in {"transcode", "dims"} -> "Ready"
      [] xpc = "exif" -> "Validated"
      [] xpc = "done" /\ thrown.name = "CanvasTimeoutError" -> "TimedOut"
      [] xpc = "done" /\ thrown.name = "CanvasExtensionError"
                     /\ thrown.text \in {"size", "dimensions"} -> "Rejected"
      [] xpc = "done" /\ thrown.name = "CanvasExtensionError"
                     /\ thrown.text \notin {"size", "dimensions"} -> "ExtensionError"
      [] xpc = "done" /\ thrown.name = "Error" -> "Failed"
      [] xpc = "done" /\ thrown.name = "none" -> "Done"

\* The steps from stage to stage that the order Stabilizing, Polling, one of
\* Ready, TimedOut and ExtensionError, Validated or Rejected, MetadataEmbedded,
\* Done allows (Ready to Done is the step that validates without metadata).
StageOrder ==
    {<<"HookInstalled", "Stabilizing">>, <<"HookInstalled", "Failed">>,
     <<"Stabilizing", "Polling">>,
     <<"Polling", "Ready">>, <<"Polling", "TimedOut">>,
     <<"Polling", "ExtensionError">>, <<"Polling", "Failed">>,
     <<"Ready", "Validated">>, <<"Ready", "Rejected">>, <<"Ready", "Done">>,
     <<"Ready", "Failed">>,
     <<"Validated", "Done">>}

ValidationPassed ==
    /\ xhist.fileSizeBytes >= DefaultMinFileSize
    /\ xhist.width >= DefaultMinDimensions
    /\ xhist.height >= DefaultMinDimensions

\* C25: a request goes through its stages in the order Stabilizing, Polling,
\* one of Ready, TimedOut and ExtensionError, then from Ready only Validated or
\* Rejected, then MetadataEmbedded if metadata was passed, then Done.  exiftool
\* is run at most once and only after the size and the dimension test passed; a
\* path is returned only by a run that was Ready and Validated.
C25_StageOrder ==
    /\ [][Stage' = Stage \/ <<Stage, Stage'>> \in StageOrder]_vars
    /\ []((xpc = "exif" \/ xhist.exif # "none") => (xin.metadata /\ ValidationPassed))
    /\ [][xhist.exif # "none" => (xhist'.exif = xhist.exif /\ xpc' # "exif")]_vars
    /\ [](xhist.exif # "none" => Stage = "Done")
    /\ [](result.kind = "path" =>
            /\ Stage = "Done"
            /\ poll.canvasReady /\ imageDataUrl = "png"
            /\ ValidationPassed
            /\ (xin.metadata <=> xhist.exif # "none"))

C25_Witness ==
    /\ Stage = "Done"
    /\ xhist.exif = "exit0"
    /\ xhist.checks = 3
    /\ result = Returned(jpgPath)

\* C27: if the signal element gets a well-formed data-url and no data-error at a
\* moment before maxWaitMs has elapsed since polling began, and keeps them, the
\* run does not end with CanvasTimeoutError, whichever sleep of the loop was in
\* progress at that moment.
C27_SignalInTimeIsSeen ==
    (/\ xpc = "done"
     /\ signal = [data |-> "png", error |-> "absent"]
     /\ xhist.inTime) =>
        thrown.name # "CanvasTimeoutError"

\* C28: after the call has returned, on every outcome (success, timeout,
\* extension error, malformed payload, transcode failure, validation failure),
\* the intermediate PNG this call wrote is not on disk.
C28_NoIntermediateLeft ==
    xpc = "done" => pngPath \notin files

====
